---- MODULE Spec2Model ----
(***************************************************************************)
(* HaploMapper, step 2: new_haplogroup_frequency_tables.py.                *)
(*                                                                         *)
(* main() reads the annotation table, derives the age bin and the          *)
(* population name of every row, and calls make_haplo_table once for the   *)
(* Y-chromosome column and once for the mtDNA column.  make_haplo_table    *)
(* filters the rows with a usable haplogroup code, counts basal letters    *)
(* and subclades per group, and assembles the percentage table.            *)
(*                                                                         *)
(* Strings that the code indexes (haplogroup codes, numeric cells) are     *)
(* sequences of one-character strings; strings that it only concatenates   *)
(* or compares (region, labels) are TLA+ strings.  NaN / None / <NA> is    *)
(* the empty tuple, a number n/d is the pair <<n, d>> with d > 0.          *)
(***************************************************************************)
EXTENDS Integers, Sequences, FiniteSets, TLC

VARIABLES df, pc, tables, code, classified, header, stderr, render, filter

vars == <<df, pc, tables, code, classified, header, stderr, render, filter>>

(***************************************************************************)
(* Bounds of the model.                                                    *)
(***************************************************************************)
\* rows of the input table
MaxRows == 3
\* length of the haplogroup codes enumerated for the classifier
MaxCodeLen == 3
\* length of the age cells enumerated for the binning
MaxAgeLen == 4

(***************************************************************************)
(* Characters.                                                             *)
(***************************************************************************)
\* the characters haplogroup codes are built from
CodeAlphabet == {" ", ".", "/", "1", "2", "?", "A", "B", "N", "a", "n"}

\* str.strip() removes these
Whitespace == {" "}

\* str.isdigit()
isdigit(c) == c \in {"0", "1", "2", "3", "4", "5", "6", "7", "8", "9"}

\* str.isalpha()
isalpha(c) == c \in {"A", "B", "H", "N", "a", "d", "e", "h", "l", "n", "r", "t"}

\* str.upper() on one character
upper(c) ==
    CASE c = "a" -> "A"
      [] c = "d" -> "D"
      [] c = "e" -> "E"
      [] c = "h" -> "H"
      [] c = "l" -> "L"
      [] c = "n" -> "N"
      [] c = "r" -> "R"
      [] c = "t" -> "T"
      [] OTHER -> c

\* code point of a character: Python orders strings by code point
ord(c) ==
    CASE c = " " -> 32
      [] c = "." -> 46
      [] c = "/" -> 47
      [] c = "0" -> 48
      [] c = "1" -> 49
      [] c = "2" -> 50
      [] c = "3" -> 51
      [] c = "4" -> 52
      [] c = "5" -> 53
      [] c = "6" -> 54
      [] c = "7" -> 55
      [] c = "8" -> 56
      [] c = "9" -> 57
      [] c = "?" -> 63
      [] c = "A" -> 65
      [] c = "B" -> 66
      [] c = "H" -> 72
      [] c = "N" -> 78
      [] c = "a" -> 97
      [] c = "n" -> 110
      [] OTHER -> 120

RECURSIVE lstrip(_)
lstrip(s) ==
    IF s # <<>> /\ Head(s) \in Whitespace THEN lstrip(Tail(s)) ELSE s

RECURSIVE rstrip(_)
rstrip(s) ==
    IF s # <<>> /\ s[Len(s)] \in Whitespace
    THEN rstrip(SubSeq(s, 1, Len(s) - 1))
    ELSE s

\* str.strip()
strip(s) == rstrip(lstrip(s))

\* the absent value: None, NaN, <NA>
None == <<>>

(***************************************************************************)
(* make_haplo_table: which codes are kept, and how a kept code is          *)
(* classified.                                                             *)
(***************************************************************************)
invalid_patterns ==
    { <<>>,
      <<".", ".">>,
      <<"n", "/", "a">>,
      <<"N", "/", "A">>,
      <<"N", "e", "a", "n", "d", "e", "r", "t", "h", "a", "l">> }

\* line 179: the row survives the placeholder filter
NotPlaceholder(x) == strip(x) \notin invalid_patterns

\* is_valid_haplo without its strip()
is_valid_haplo_nostrip(x) ==
    Len(x) = 1 \/ (Len(x) >= 2 /\ isdigit(x[2]))

is_valid_haplo(x) ==
    LET s == strip(x)
    IN  Len(s) = 1 \/ (Len(s) >= 2 /\ isdigit(s[2]))

\* lines 179 and 193: the row is in df_valid
InDfValid(x) == NotPlaceholder(x) /\ is_valid_haplo(x)

\* line 200: df_valid[haplo_col].str[0].str.upper(), on the cell as read
haplo_basal(x) == IF x = <<>> THEN None ELSE <<upper(x[1])>>

parse_subclade(h) ==
    LET s == strip(h)
    IN  IF Len(s) < 2 THEN None
        ELSE IF isdigit(s[2]) THEN <<upper(s[1]), upper(s[2])>>
        ELSE None

(***************************************************************************)
(* Numbers: <<n, d>> is n/d, d > 0.                                        *)
(***************************************************************************)
Num(n) == <<n, 1>>

FracAdd(a, b) == <<a[1] * b[2] + b[1] * a[2], a[2] * b[2]>>

FracEq(a, b) == a[1] * b[2] = b[1] * a[2]

\* numpy floor
Floor(a) == a[1] \div a[2]

\* astype(int) of a float: truncation toward zero
Trunc(a) == IF a[1] >= 0 THEN a[1] \div a[2] ELSE -((-a[1]) \div a[2])

\* numpy round: to the nearest integer, halves to the even one
Round(a) ==
    LET q == a[1] \div a[2]
        r == a[1] - q * a[2]
    IN  IF 2 * r < a[2] THEN q
        ELSE IF 2 * r > a[2] THEN q + 1
        ELSE IF q % 2 = 0 THEN q ELSE q + 1

RECURSIVE SumInt(_, _)
SumInt(f, S) ==
    IF S = {} THEN 0
    ELSE LET x == CHOOSE y \in S : TRUE
         IN  f[x] + SumInt(f, S \ {x})

\* sum of the numbers f[x], x in S, skipping NaN (pandas sum, skipna)
RECURSIVE SumFrac(_, _)
SumFrac(f, S) ==
    IF S = {} THEN Num(0)
    ELSE LET x == CHOOSE y \in S : TRUE
             rest == SumFrac(f, S \ {x})
         IN  IF f[x] = None THEN rest ELSE FracAdd(f[x], rest)

\* the value of the first record in place of the mean
Mean_first(f, S) ==
    IF S = {} THEN None ELSE f[CHOOSE i \in S : TRUE]

\* the mean with NaN counted as 0
Mean_zero_filled(f, S) ==
    LET s == SumFrac(f, S)
    IN  IF S = {} THEN None
        ELSE <<s[1], s[2] * Cardinality(S)>>

\* pandas mean: NaN is left out, and the mean of nothing is NaN
Mean(f, S) ==
    LET have == {x \in S : f[x] # None}
        s == SumFrac(f, have)
    IN  IF have = {} THEN None
        ELSE <<s[1], s[2] * Cardinality(have)>>

(***************************************************************************)
(* main, lines 93-113: the derived columns of a row.                       *)
(***************************************************************************)
RECURSIVE DigitsValue(_)
DigitsValue(s) ==
    IF s = <<>> THEN 0
    ELSE 10 * DigitsValue(SubSeq(s, 1, Len(s) - 1)) + (ord(s[Len(s)]) - 48)

\* pd.to_numeric(errors='coerce') of a cell read as text: an optional minus
\* sign, digits, and at most one decimal point with a digit on either side
\* of it; anything else among the cells drawn here is NaN
to_numeric(cell) ==
    LET neg == cell # <<>> /\ cell[1] = "-"
        body == IF neg THEN Tail(cell) ELSE cell
        dots == {i \in DOMAIN body : body[i] = "."}
        p == IF dots = {} THEN Len(body) + 1 ELSE CHOOSE i \in dots : TRUE
        whole == SubSeq(body, 1, p - 1)
        frac == SubSeq(body, p + 1, Len(body))
        digits == whole \o frac
        v == DigitsValue(digits)
    IN  IF /\ Cardinality(dots) <= 1
           /\ digits # <<>>
           /\ \A i \in DOMAIN digits : isdigit(digits[i])
        THEN <<(IF neg THEN 0 - v ELSE v), 10 ^ Len(frac)>>
        ELSE None

BinWidth == 1000

\* the bin taken with np.round instead of np.floor
age_bin_lower_round(age_numeric) ==
    IF age_numeric = None THEN None
    ELSE <<Round(<<age_numeric[1], age_numeric[2] * BinWidth>>) * BinWidth>>

\* line 103: floor(age / 1000) * 1000 as Int64, <NA> where the age is NaN
age_bin_lower(age_numeric) ==
    IF age_numeric = None THEN None
    ELSE <<Floor(<<age_numeric[1], age_numeric[2] * BinWidth>>) * BinWidth>>

\* Int64 .astype(str) into the object strings of read_csv(dtype=str):
\* <NA> becomes the text "<NA>"
Int64Str(v) == IF v = None THEN "<NA>" ELSE ToString(v[1])

Int64Plus(v, k) == IF v = None THEN None ELSE <<v[1] + k>>

\* line 105
binned_age(lower) ==
    Int64Str(lower) \o "-" \o Int64Str(Int64Plus(lower, BinWidth)) \o " BP"

\* line 107
pop_name(country, bin) == country \o " " \o bin

\* lines 96-111 for one row
AddColumns(r) ==
    LET a == to_numeric(r.age)
        bin == binned_age(age_bin_lower(a))
    IN  [country |-> r.country, age |-> r.age, lat |-> r.lat, long |-> r.long,
         y |-> r.y, mt |-> r.mt,
         age_numeric |-> a,
         binned_age |-> bin,
         name |-> pop_name(r.country, bin),
         lat_numeric |-> to_numeric(r.lat),
         long_numeric |-> to_numeric(r.long)]

\* the rows grouped by the age bin alone, the region left out of the key
GroupKey_bin_only(r) ==
    [name |-> r.binned_age, country |-> "", binned_age |-> r.binned_age]

\* line 122: group_keys
GroupKey(r) == [name |-> r.name, country |-> r.country, binned_age |-> r.binned_age]

(***************************************************************************)
(* make_haplo_table, lines 158-404.                                        *)
(***************************************************************************)
\* Python's order of strings: by code point, a proper prefix first
RECURSIVE StrLeq(_, _)
StrLeq(a, b) ==
    IF a = <<>> THEN TRUE
    ELSE IF b = <<>> THEN FALSE
    ELSE IF ord(a[1]) < ord(b[1]) THEN TRUE
    ELSE IF ord(a[1]) > ord(b[1]) THEN FALSE
    ELSE StrLeq(Tail(a), Tail(b))

\* sorted(S)
RECURSIVE sorted(_)
sorted(S) ==
    IF S = {} THEN <<>>
    ELSE LET m == CHOOSE x \in S : \A y \in S : StrLeq(x, y)
         IN  <<m>> \o sorted(S \ {m})

\* sc.startswith(b)
startswith(sc, b) == Len(sc) >= Len(b) /\ SubSeq(sc, 1, Len(b)) = b

\* the text of a column name
RECURSIVE Text(_)
Text(s) == IF s = <<>> THEN "" ELSE Head(s) \o Text(Tail(s))

Range(q) == {q[i] : i \in DOMAIN q}

\* all the basal columns first, then all the subclade columns
final_order_basals_first(basals, subclade_cols) ==
    basals \o sorted(subclade_cols)

\* lines 363-367: each basal followed by the subclades that start with it
RECURSIVE final_order_of_haplos(_, _)
final_order_of_haplos(basals, subclade_cols) ==
    IF basals = <<>> THEN <<>>
    ELSE LET b == Head(basals)
             related_subs == sorted({sc \in subclade_cols : startswith(sc, b)})
         IN  <<b>> \o related_subs \o final_order_of_haplos(Tail(basals), subclade_cols)

\* format_calendar_year without its last branch: year 0 falls to "BCE"
format_calendar_year_nozero(year) ==
    IF year > 0 THEN ToString(year) \o " CE"
    ELSE ToString(0 - year) \o " BCE"

\* lines 334-343
format_calendar_year(year) ==
    IF year > 0 THEN ToString(year) \o " CE"
    ELSE IF year < 0 THEN ToString(-year) \o " BCE"
    ELSE "0 CE"

ReferenceYear == 1950

\* line 390: f"{x:.2f}%", or "" for NaN
format_pct(x) ==
    IF x = None THEN ""
    ELSE LET h == Round(<<100 * x[1], x[2]>>)
             frac == h % 100
         IN  ToString(h \div 100) \o "."
                 \o (IF frac < 10 THEN "0" ELSE "") \o ToString(frac) \o "%"

\* line 235 / 238: the sum of a row of basal counts
RowSum(counts) == SumInt(counts, DOMAIN counts)

\* basal_pct as a fraction of 1, the factor 100 forgotten
basal_pct_fraction(count, total) ==
    IF total > 0 THEN <<count, total>> ELSE Num(0)

\* lines 247-251: a basal count as a percentage of the group's basal total
basal_pct(count, total) ==
    IF total > 0 THEN <<100 * count, total>> ELSE Num(0)

\* the denominator taken from the group total instead of the parent's column
parent_count_group_total(counts, sc) == RowSum(counts)

\* lines 307-309: merged_df[parent_letter + "_count"], the raw count of the
\* subclade's parent basal in the same row
parent_count(counts, sc) == counts[<<upper(sc[1])>>]

\* sub_pct without the fillna(0) of line 308: NaN stays NaN
sub_pct_nofill(raw, parent) ==
    IF parent > 0
    THEN (IF raw = None THEN None ELSE <<100 * raw[1], raw[2] * parent>>)
    ELSE Num(0)

\* lines 308-316: a subclade count relative to the parent's raw count
sub_pct(raw, parent) ==
    LET v == IF raw = None THEN Num(0) ELSE raw
    IN  IF parent > 0 THEN <<100 * v[1], v[2] * parent>> ELSE Num(0)

\* lines 296-302: Total_count plus the raw subclade counts of the row
RecalcTotal(total_count, sub_row, subclade_cols) ==
    IF subclade_cols # {}
    THEN FracAdd(Num(total_count), SumFrac(sub_row, subclade_cols))
    ELSE Num(total_count)

\* no exception raised: the table is written with its header and no row
ValueError_empty_table(msg) ==
    [status |-> "written",
     df_valid |-> {},
     pivot_basal_counts |-> <<>>,
     pivot_sub |-> <<>>,
     group_of |-> <<>>,
     coord_df |-> <<>>,
     columns |-> <<"Ancient pop name", "Country", "Age", "Lat", "Long", "Total">>,
     haplo_cols |-> <<>>,
     rows |-> <<>>]

\* lines 183 and 197: raise ValueError
ValueError(msg) == [status |-> "error", error |-> msg]

\* line 179: the rows left by the placeholder filter
not_placeholder_rows(d, haplo_col) ==
    {i \in DOMAIN d : NotPlaceholder(d[i][haplo_col])}

\* the filters of lines 179 and 193 never applied
valid_rows_unfiltered(d, haplo_col) == DOMAIN d

\* lines 179-193: df_valid, as the set of row numbers kept
valid_rows(d, haplo_col) ==
    {i \in not_placeholder_rows(d, haplo_col) : is_valid_haplo(d[i][haplo_col])}

make_haplo_table(d, haplo_col) ==
    LET not_placeholder == not_placeholder_rows(d, haplo_col)
        df_valid == valid_rows(d, haplo_col)
        basal_of == [i \in df_valid |-> haplo_basal(d[i][haplo_col])]
        sub_of == [i \in df_valid |-> parse_subclade(d[i][haplo_col])]
        key == [i \in df_valid |-> GroupKey(d[i])]
        groups == {key[i] : i \in df_valid}
        basal_letters == {basal_of[i] : i \in df_valid}
        \* lines 217-229: Count_basal pivoted, absent pairs filled with 0
        pivot_basal_counts ==
            [g \in groups |-> [b \in basal_letters |->
                Cardinality({i \in df_valid : key[i] = g /\ basal_of[i] = b})]]
        Total_count == [g \in groups |-> RowSum(pivot_basal_counts[g])]
        pivot_basal ==
            [g \in groups |-> [b \in basal_letters |->
                basal_pct(pivot_basal_counts[g][b], Total_count[g])]]
        \* lines 259-285
        sub_valid == {i \in df_valid : sub_of[i] # None}
        sub_groups == {key[i] : i \in sub_valid}
        subclade_cols == {sub_of[i] : i \in sub_valid}
        Count_sub(g, b, sc) ==
            Cardinality({i \in sub_valid :
                            key[i] = g /\ basal_of[i] = b /\ sub_of[i] = sc})
        \* pivot_table aggregates the Count_sub rows of one (group, subclade)
        \* with its default aggfunc, the mean; absent pairs are filled with 0
        pivot_sub ==
            [g \in sub_groups |-> [sc \in subclade_cols |->
                LET bs == {b \in basal_letters : Count_sub(g, b, sc) > 0}
                    cnt == [b \in bs |-> Num(Count_sub(g, b, sc))]
                IN  IF bs = {} THEN Num(0) ELSE Mean(cnt, bs)]]
        \* line 289: left join, NaN for a group without subclade rows
        merged_sub ==
            [g \in groups |-> [sc \in subclade_cols |->
                IF g \in sub_groups THEN pivot_sub[g][sc] ELSE None]]
        Total ==
            [g \in groups |->
                Trunc(RecalcTotal(Total_count[g], merged_sub[g], subclade_cols))]
        \* lines 305-319: a missing parent column is a KeyError, caught, and
        \* the whole subclade column is set to 0.0
        sub_percent ==
            [g \in groups |-> [sc \in subclade_cols |->
                LET parent_letter == <<upper(sc[1])>>
                IN  IF parent_letter \notin basal_letters THEN Num(0)
                    ELSE sub_pct(merged_sub[g][sc],
                                 parent_count(pivot_basal_counts[g], sc))]]
        \* lines 323-324
        members == [g \in groups |-> {i \in df_valid : key[i] = g}]
        lat_of == [i \in df_valid |-> d[i].lat_numeric]
        long_of == [i \in df_valid |-> d[i].long_numeric]
        age_of == [i \in df_valid |-> d[i].age_numeric]
        mean_age == [g \in groups |-> Mean(age_of, members[g])]
        \* lines 332-348: astype(int) raises on NaN, and every row gets "Unknown"
        Age ==
            [g \in groups |->
                IF \E h \in groups : mean_age[h] = None THEN "Unknown"
                ELSE LET m == mean_age[g]
                     IN  format_calendar_year(
                             Round(<<ReferenceYear * m[2] - m[1], m[2]>>))]
        \* lines 360-378
        haplo_order == final_order_of_haplos(sorted(basal_letters), subclade_cols)
        haplo_cols == Range(haplo_order)
        value ==
            [g \in groups |-> [c \in haplo_cols |->
                IF c \in basal_letters THEN pivot_basal[g][c] ELSE sub_percent[g][c]]]
    IN  IF not_placeholder = {}
        THEN ValueError("No valid haplogroup entries found")
        ELSE IF df_valid = {}
        THEN ValueError("No valid haplogroup entries matching the pattern")
        ELSE [status |-> "written",
              df_valid |-> df_valid,
              pivot_basal_counts |-> pivot_basal_counts,
              pivot_sub |-> pivot_sub,
              group_of |-> key,
              coord_df |-> [g \in groups |->
                  [lat_numeric |-> Mean(lat_of, members[g]),
                   long_numeric |-> Mean(long_of, members[g]),
                   age_numeric |-> mean_age[g]]],
              columns |-> <<"Ancient pop name", "Country", "Age", "Lat", "Long">>
                              \o [k \in DOMAIN haplo_order |-> Text(haplo_order[k])]
                              \o <<"Total">>,
              haplo_cols |-> haplo_order,
              rows |-> [g \in groups |->
                  [name |-> g.name,
                   Country |-> g.country,
                   Age |-> Age[g],
                   Lat |-> Mean(lat_of, members[g]),
                   Long |-> Mean(long_of, members[g]),
                   value |-> value[g],
                   cell |-> [c \in haplo_cols |-> format_pct(value[g][c])],
                   Total |-> Total[g]]]]

(***************************************************************************)
(* main, lines 39-156.                                                     *)
(***************************************************************************)
\* region strings that differ in case only
Countries == {"X", "x"}

AgeCells == { <<"5", "0", "0">>, <<"1", "5", "0", "0">>, <<>> }

LatCells == { <<"4">> }

LongCells == { <<"2">> }

YCodes == { <<"A">>, <<"A", "1">>, <<"A", "2">>, <<" ", "A", "1">>,
            <<"n", "/", "a">>, <<"B">> }

MtCodes == { <<"H">> }

\* the codes that occur in every age bin; the others occur in the first
PlainCodes == { <<"A">>, <<"A", "1">> }

\* the second region occurs with one age and one code
InputRows ==
    {r \in [country : Countries, age : AgeCells, lat : LatCells,
            long : LongCells, y : YCodes, mt : MtCodes] :
        /\ r.age = <<"5", "0", "0">> \/ r.y \in PlainCodes
        /\ r.country = "x" => r.age = <<"5", "0", "0">> /\ r.y = <<"A">>}

\* line 66: one more row of the input file, out of rows
Read(rows) ==
    /\ pc = "read"
    /\ Len(df) < MaxRows
    /\ \E r \in rows : df' = Append(df, r)
    /\ UNCHANGED <<pc, tables, code, classified, header, stderr, render, filter>>

ReadRow == Read(InputRows)

\* the check applied to the cells as read, which fillna("") left without NaN
all_age_nan_raw(d) == \A i \in DOMAIN d : FALSE

\* line 99: df['age_numeric'].isna().all()
all_age_nan(d) == \A i \in DOMAIN d : to_numeric(d[i].age) = None

\* lines 79-85: the columns main reads
col_country == "Political Entity"

col_age == "Date mean in BP in years before 1950 CE [OxCal mu for a direct radiocarbon date, and average of range for a contextual date]"

col_lat == "Lat."

col_long == "Long."

col_y_hg == "Y haplogroup (manual curation in ISOGG format)"

col_mt_hg == "mtDNA haplogroup if >2x or published"

\* the header of a file that has every column main reads
FullHeader == {col_country, col_age, col_lat, col_long, col_y_hg, col_mt_hg}

\* line 88
required_columns == <<col_country, col_age, col_lat, col_long>>

\* the subsequence of q of the elements that are in keep
RECURSIVE SelectFrom(_, _)
SelectFrom(q, keep) ==
    IF q = <<>> THEN <<>>
    ELSE (IF Head(q) \in keep THEN <<Head(q)>> ELSE <<>>) \o SelectFrom(Tail(q), keep)

\* only the first missing column reported
missing_columns_first(columns) ==
    SubSeq(SelectFrom(required_columns, Range(required_columns) \ columns), 1, 1)

\* line 89: the required columns that are not in df.columns, in their order
missing_columns(columns) ==
    SelectFrom(required_columns, Range(required_columns) \ columns)

\* nothing has been written by sys.exit
NoError == [error |-> "none"]

\* lines 87-113: the check of the header, then the derived columns, or the
\* exit when no age is numeric
Preprocess ==
    /\ pc = "read"
    /\ IF missing_columns(header) # <<>>
       THEN /\ pc' = "exit"
            /\ df' = df
            /\ stderr' = [error |-> "missing columns",
                          columns |-> missing_columns(header)]
       ELSE IF all_age_nan(df)
       THEN /\ pc' = "exit"
            /\ df' = df
            /\ stderr' = [error |-> "no valid age"]
       ELSE /\ pc' = "y"
            /\ df' = [i \in DOMAIN df |-> AddColumns(df[i])]
            /\ stderr' = stderr
    /\ UNCHANGED <<tables, code, classified, header, render, filter>>

\* the column of the input behind a field of the rows
ColumnName(haplo_col) == IF haplo_col = "y" THEN col_y_hg ELSE col_mt_hg

\* lines 125-139, with lines 142-156 the body of both calls: the column is
\* skipped when absent or blank, and an exception of make_haplo_table is
\* caught
BuildTable(haplo_col) ==
    IF ColumnName(haplo_col) \notin header
    THEN [status |-> "skipped", not_found |-> ColumnName(haplo_col)]
    ELSE IF \A i \in DOMAIN df : strip(df[i][haplo_col]) = <<>>
    THEN [status |-> "skipped"]
    ELSE make_haplo_table(df, haplo_col)

\* lines 124-128 and 142-146: the else branch, which calls make_haplo_table
Called(haplo_col) ==
    /\ ColumnName(haplo_col) \in header
    /\ \E i \in DOMAIN df : strip(df[i][haplo_col]) # <<>>

\* the frame df of main after a call in which the filters had been applied
\* to df itself
df_after_filtered(d, haplo_col) ==
    SelectSeq(d, LAMBDA r : NotPlaceholder(r[haplo_col])
                            /\ is_valid_haplo(r[haplo_col]))

\* the frame df of main after a call of make_haplo_table: line 179 filters
\* into a copy and line 193 into a new frame, lines 200 and 213 add their
\* columns to that frame, and nothing is assigned to df
df_after(d, haplo_col) == d

\* lines 395-404: to_csv raised, and sys.exit ended the process
WriteFailed == [status |-> "write_failed"]

\* one call of lines 125-139 or 142-156 for table T, the output file being
\* writable or not: the SystemExit of line 404 is no Exception, so neither
\* line 138 / 155 nor line 409 catches it
Build(T, haplo_col, next_pc) ==
    /\ \E writable \in BOOLEAN :
           LET t == BuildTable(haplo_col)
           IN  IF t.status = "written" /\ ~writable
               THEN /\ tables' = [tables EXCEPT ![T] = WriteFailed]
                    /\ pc' = "exit"
                    /\ stderr' = [error |-> "write", file |-> T]
               ELSE /\ tables' = [tables EXCEPT ![T] = t]
                    /\ pc' = next_pc
                    /\ stderr' = stderr
    /\ df' = IF Called(haplo_col) THEN df_after(df, haplo_col) ELSE df

BuildY ==
    /\ pc = "y"
    /\ Build("Y", "y", "mt")
    /\ UNCHANGED <<code, classified, header, render, filter>>

BuildMt ==
    /\ pc = "mt"
    /\ Build("MT", "mt", "done")
    /\ UNCHANGED <<code, classified, header, render, filter>>

\* no table has been built
NoTables == [Y |-> [status |-> "none"], MT |-> [status |-> "none"]]

\* no code has been classified
NotClassified == [done |-> FALSE]

\* the rendering stage and the filtering stage have not run
NoRender == [pc |-> "idle"]

NoFilter == [pc |-> "idle"]

Init ==
    /\ df = <<>>
    /\ pc = "read"
    /\ tables = NoTables
    /\ code = <<>>
    /\ classified = NotClassified
    /\ header = FullHeader
    /\ stderr = NoError
    /\ render = NoRender
    /\ filter = NoFilter

Next == ReadRow \/ Preprocess \/ BuildY \/ BuildMt

Spec == Init /\ [][Next]_vars

(***************************************************************************)
(* The classifier on its own: every code up to MaxCodeLen characters and   *)
(* the literal placeholders.                                               *)
(***************************************************************************)
SeqsUpTo(S, n) == UNION {[1..k -> S] : k \in 0..n}

AllCodes == SeqsUpTo(CodeAlphabet, MaxCodeLen) \cup invalid_patterns

\* lines 177-213 applied to one cell
Classify ==
    /\ pc = "classify"
    /\ classified = NotClassified
    /\ classified' =
           IF InDfValid(code)
           THEN [done |-> TRUE, valid |-> TRUE,
                 basal |-> haplo_basal(code), sub |-> parse_subclade(code)]
           ELSE [done |-> TRUE, valid |-> FALSE, basal |-> None, sub |-> None]
    /\ UNCHANGED <<df, pc, tables, code, header, stderr, render, filter>>

InitClassify ==
    /\ df = <<>>
    /\ pc = "classify"
    /\ tables = NoTables
    /\ code \in AllCodes
    /\ classified = NotClassified
    /\ header = FullHeader
    /\ stderr = NoError
    /\ render = NoRender
    /\ filter = NoFilter

NextClassify == Classify

SpecClassify == InitClassify /\ [][NextClassify]_vars

(***************************************************************************)
(* The binning on its own: one record, its age cell any text of up to      *)
(* MaxAgeLen characters, taken through lines 93-113.                       *)
(***************************************************************************)
AgeAlphabet == {"-", ".", "0", "1", "9"}

BinAgeCells == SeqsUpTo(AgeAlphabet, MaxAgeLen)

BinRows ==
    [country : Countries, age : BinAgeCells, lat : LatCells,
     long : LongCells, y : {<<"A">>}, mt : MtCodes]

InitBin ==
    /\ df \in {<<r>> : r \in BinRows}
    /\ pc = "read"
    /\ tables = NoTables
    /\ code = <<>>
    /\ classified = NotClassified
    /\ header = FullHeader
    /\ stderr = NoError
    /\ render = NoRender
    /\ filter = NoFilter

NextBin == Preprocess

SpecBin == InitBin /\ [][NextBin]_vars

(***************************************************************************)
(* The run on records that differ in age only: ages around 0, around the   *)
(* reference year and beyond it, and a record without a numeric age.       *)
(***************************************************************************)
AgeLabelCells ==
    { <<"0">>, <<"1">>, <<"1", "9", "5", "0">>, <<"1", "9", "5", "1">>,
      <<"2", "5", "0", "0">>, <<>> }

AgeRows ==
    [country : {"X"}, age : AgeLabelCells, lat : LatCells,
     long : LongCells, y : {<<"A">>}, mt : MtCodes]

ReadAgeRow == Read(AgeRows)

NextAge == ReadAgeRow \/ Preprocess \/ BuildY \/ BuildMt

SpecAge == Init /\ [][NextAge]_vars

(***************************************************************************)
(* The run on records that differ in their two haplogroup cells: a valid   *)
(* code, a placeholder, a code of the wrong shape, a blank cell.           *)
(***************************************************************************)
RunYCodes == { <<"A">>, <<"n", "/", "a">>, <<"A", "B">>, <<>> }

RunMtCodes == { <<"H">>, <<>> }

RunRows ==
    [country : {"X"}, age : {<<"5", "0", "0">>}, lat : LatCells,
     long : LongCells, y : RunYCodes, mt : RunMtCodes]

ReadRunRow == Read(RunRows)

NextRun == ReadRunRow \/ Preprocess \/ BuildY \/ BuildMt

SpecRun == Init /\ [][NextRun]_vars

(***************************************************************************)
(* The run on files whose header lacks any of the columns main reads.      *)
(***************************************************************************)
ColumnRows ==
    { [country |-> "X", age |-> <<"5", "0", "0">>, lat |-> <<"4">>,
       long |-> <<"2">>, y |-> <<"A">>, mt |-> <<"H">>],
      [country |-> "X", age |-> <<"5", "0", "0">>, lat |-> <<"4">>,
       long |-> <<"2">>, y |-> <<"n", "/", "a">>, mt |-> <<"H">>],
      [country |-> "X", age |-> <<>>, lat |-> <<"4">>,
       long |-> <<"2">>, y |-> <<"A">>, mt |-> <<"H">>] }

ReadColumnRow == Read(ColumnRows)

InitColumns ==
    /\ df = <<>>
    /\ pc = "read"
    /\ tables = NoTables
    /\ code = <<>>
    /\ classified = NotClassified
    /\ header \in SUBSET FullHeader
    /\ stderr = NoError
    /\ render = NoRender
    /\ filter = NoFilter

NextColumns == ReadColumnRow \/ Preprocess \/ BuildY \/ BuildMt

SpecColumns == InitColumns /\ [][NextColumns]_vars

(***************************************************************************)
(* The run on records that differ in age, coordinates and Y code: two ages *)
(* of one bin, a missing latitude, a missing longitude on a record with a  *)
(* placeholder code, a missing age, a code with a leading space.           *)
(***************************************************************************)
MeanRows ==
    { [country |-> "X", age |-> <<"5", "0", "0">>, lat |-> <<"4">>,
       long |-> <<"2">>, y |-> <<"A">>, mt |-> <<"H">>],
      [country |-> "X", age |-> <<"5", "0", "1">>, lat |-> <<"8">>,
       long |-> <<"2">>, y |-> <<"A", "1">>, mt |-> <<"H">>],
      [country |-> "X", age |-> <<"5", "0", "0">>, lat |-> <<>>,
       long |-> <<"2">>, y |-> <<"A">>, mt |-> <<"H">>],
      [country |-> "X", age |-> <<"5", "0", "0">>, lat |-> <<"8">>,
       long |-> <<>>, y |-> <<"n", "/", "a">>, mt |-> <<"H">>],
      [country |-> "X", age |-> <<>>, lat |-> <<"4">>,
       long |-> <<"2">>, y |-> <<"A">>, mt |-> <<"H">>],
      [country |-> "X", age |-> <<"5", "0", "0">>, lat |-> <<"8">>,
       long |-> <<"2">>, y |-> <<" ", "A", "1">>, mt |-> <<"H">>] }

ReadMeanRow == Read(MeanRows)

NextMeans == ReadMeanRow \/ Preprocess \/ BuildY \/ BuildMt

SpecMeans == Init /\ [][NextMeans]_vars

(***************************************************************************)
(* filter_annotation.py, main, lines 25-115.  A line of the samples file   *)
(* is its sequence of whitespace-separated fields; a row of the annotation *)
(* file has a "Genetic ID" cell and an "ASSESSMENT" cell; the frames       *)
(* df_filtered are kept as the row numbers they hold, in order.            *)
(***************************************************************************)
MaxSamples == 2

MaxAnnotation == 3

SampleLines ==
    { << <<"1">>, <<"I", "1">> >>,
      << <<"2">> >> }

GeneticIDs == { <<"I", "1">>, <<"I", "2">>, None }

PASS == <<"P", "A", "S", "S">>

Assessments == { PASS, <<"p", "a", "s", "s">> }

AnnotationRows == [id : GeneticIDs, assessment : Assessments]

AnnotationColumns == {"Genetic ID", "ASSESSMENT"}

\* lines 55-61: the second field of a line, NaN for a line without one
SampleName(line) == IF Len(line) >= 2 THEN line[2] ELSE None

\* Series.isin without its match of a missing value to a missing value
isin_notna(x, values) == x # None /\ x \in values

\* line 88, Series.isin: a missing value is in a set that holds one
isin(x, values) == x \in values

\* the sequence of the numbers in S, ascending
RECURSIVE Ascending(_)
Ascending(S) ==
    IF S = {} THEN <<>>
    ELSE LET m == CHOOSE i \in S : \A j \in S : i <= j
         IN  <<m>> \o Ascending(S \ {m})

FilterExit(message) == [filter EXCEPT !.pc = "exit", !.error = message]

\* lines 52-71
ReadSamples ==
    /\ filter.pc = "samples"
    /\ filter' =
           IF filter.samples_file = <<>>
           THEN FilterExit("Sample file is empty")
           ELSE [filter EXCEPT
                    !.pc = "annotation",
                    !.sample_name_set =
                        {SampleName(filter.samples_file[k]) :
                            k \in DOMAIN filter.samples_file}]
    /\ UNCHANGED <<df, pc, tables, code, classified, header, stderr, render>>

\* lines 73-93
FilterByGeneticID ==
    /\ filter.pc = "annotation"
    /\ filter' =
           IF "Genetic ID" \notin filter.columns
           THEN FilterExit("Column 'Genetic ID' not found")
           ELSE [filter EXCEPT
                    !.pc = "assessment",
                    !.df_filtered =
                        Ascending({k \in DOMAIN filter.annotation_file :
                            isin(filter.annotation_file[k].id,
                                 filter.sample_name_set)})]
    /\ UNCHANGED <<df, pc, tables, code, classified, header, stderr, render>>

\* lines 95-103
FilterByAssessment ==
    /\ filter.pc = "assessment"
    /\ filter' =
           IF "ASSESSMENT" \notin filter.columns
           THEN FilterExit("Column 'ASSESSMENT' not found")
           ELSE [filter EXCEPT
                    !.pc = "write",
                    !.df_filtered =
                        SelectSeq(filter.df_filtered,
                            LAMBDA k : filter.annotation_file[k].assessment = PASS)]
    /\ UNCHANGED <<df, pc, tables, code, classified, header, stderr, render>>

\* lines 105-112: to_csv writes the rows of df_filtered in their order, or
\* the file cannot be written
WriteFiltered ==
    /\ filter.pc = "write"
    /\ \E writable \in BOOLEAN :
           filter' =
               IF writable
               THEN [filter EXCEPT !.pc = "done", !.output = filter.df_filtered]
               ELSE FilterExit("Error writing output file")
    /\ UNCHANGED <<df, pc, tables, code, classified, header, stderr, render>>

InitFilter ==
    /\ df = <<>>
    /\ pc = "idle"
    /\ tables = NoTables
    /\ code = <<>>
    /\ classified = NotClassified
    /\ header = FullHeader
    /\ stderr = NoError
    /\ render = NoRender
    /\ \E samples_file \in SeqsUpTo(SampleLines, MaxSamples),
          annotation_file \in SeqsUpTo(AnnotationRows, MaxAnnotation),
          columns \in SUBSET AnnotationColumns :
           filter = [pc |-> "samples",
                     samples_file |-> samples_file,
                     annotation_file |-> annotation_file,
                     columns |-> columns,
                     sample_name_set |-> {},
                     df_filtered |-> <<>>,
                     output |-> <<>>,
                     error |-> ""]

NextFilter ==
    ReadSamples \/ FilterByGeneticID \/ FilterByAssessment \/ WriteFiltered

SpecFilter == InitFilter /\ [][NextFilter]_vars

(***************************************************************************)
(* perfect_geography.py: the rendering stage reads the table back.         *)
(***************************************************************************)
\* lines 95-96: len(col) == 1 and col.isalpha()
is_basal_col(col) == Len(col) = 1 /\ isalpha(col[1])

\* lines 98-101
is_subclade_col(col) ==
    IF Len(col) < 2 THEN FALSE
    ELSE isalpha(col[1]) /\ isdigit(col[2])

\* lines 73-75 on a cell written by line 390: the "%" is removed and the
\* number is read, in hundredths; an empty cell is 0.0
val_pct(x) ==
    IF x = None THEN 0 ELSE Round(<<100 * x[1], x[2]>>)

\* lines 118-197: the columns with a positive value that are basal or
\* subclade columns; label_list holds the basal columns, the subclade
\* columns under their parent or under a virtual parent, and nothing for a
\* column of neither kind
build_two_ring_data(row, haplo_cols) ==
    LET positive == {col \in Range(haplo_cols) : val_pct(row.value[col]) > 0}
        basal_values == {col \in positive : is_basal_col(col)}
        subclade_values ==
            {col \in positive \ basal_values : is_subclade_col(col)}
    IN  [basal_values |-> basal_values,
         subclade_values |-> subclade_values,
         labels |-> basal_values \cup subclade_values]

(***************************************************************************)
(* The Age cell from the table stage to the rendering stage: a calendar    *)
(* year is formatted by format_calendar_year, written, read back as text   *)
(* and parsed by parse_historical_age.                                     *)
(***************************************************************************)
MaxYear == 2000

DigitChars == <<"0", "1", "2", "3", "4", "5", "6", "7", "8", "9">>

\* the decimal digits of n >= 0, as an f-string writes them
RECURSIVE year_digits(_)
year_digits(n) ==
    IF n < 10 THEN <<DigitChars[n + 1]>>
    ELSE year_digits(n \div 10) \o <<DigitChars[(n % 10) + 1]>>

\* lines 334-343 of the table stage: the characters of the label
format_calendar_year_text(year) ==
    IF year > 0 THEN year_digits(year) \o <<" ", "C", "E">>
    ELSE IF year < 0 THEN year_digits(-year) \o <<" ", "B", "C", "E">>
    ELSE <<"0", " ", "C", "E">>

\* Python's `sub in s`
contains(s, sub) ==
    \E i \in 1 .. (Len(s) - Len(sub) + 1) : SubSeq(s, i, i + Len(sub) - 1) = sub

\* re.search(r"(\d+)", s): the first digit and the digits that follow it,
\* <<>> when s has no digit
first_digits(s) ==
    LET at == {i \in DOMAIN s : isdigit(s[i])}
    IN  IF at = {} THEN <<>>
        ELSE LET from == CHOOSE i \in at : \A j \in at : i <= j
                 to == CHOOSE k \in from .. Len(s) :
                           /\ \A j \in from .. k : isdigit(s[j])
                           /\ k = Len(s) \/ ~isdigit(s[k + 1])
             IN  SubSeq(s, from, to)

\* parse_historical_age without the sign of a BCE label
parse_historical_age_unsigned(age_str) ==
    IF first_digits(age_str) = <<>> THEN 0
    ELSE DigitsValue(first_digits(age_str))

\* perfect_geography.py lines 330-343; the cell is read as text, so the
\* branch of line 331 is not taken
parse_historical_age(age_str) ==
    LET is_bce == contains(age_str, <<"B", "C", "E">>)
                  \/ contains(age_str, <<"B", "C">>)
        match == first_digits(age_str)
    IN  IF match = <<>> THEN 0
        ELSE IF is_bce THEN -DigitsValue(match)
        ELSE DigitsValue(match)

\* the table stage writes the Age cell of a row
FormatYear ==
    /\ render.pc = "format"
    /\ render' = [render EXCEPT !.pc = "parse",
                                !.age_str = format_calendar_year_text(render.year)]
    /\ UNCHANGED <<df, pc, tables, code, classified, header, stderr, filter>>

\* the rendering stage parses the Age cell of the row
ParseAge ==
    /\ render.pc = "parse"
    /\ render' = [render EXCEPT !.pc = "done",
                                !.parsed = parse_historical_age(render.age_str)]
    /\ UNCHANGED <<df, pc, tables, code, classified, header, stderr, filter>>

InitRoundTrip ==
    /\ df = <<>>
    /\ pc = "idle"
    /\ tables = NoTables
    /\ code = <<>>
    /\ classified = NotClassified
    /\ header = FullHeader
    /\ stderr = NoError
    /\ filter = NoFilter
    /\ \E year \in (-MaxYear) .. MaxYear :
           render = [pc |-> "format", year |-> year, age_str |-> <<>>, parsed |-> 0]

NextRoundTrip == FormatYear \/ ParseAge

SpecRoundTrip == InitRoundTrip /\ [][NextRoundTrip]_vars

(***************************************************************************)
(* Properties.                                                             *)
(*                                                                         *)
(* The counts below are taken from the input rows directly, one row at a   *)
(* time, and are compared with what make_haplo_table put in its table.     *)
(***************************************************************************)
Labels == {"Y", "MT"}

HaploCol(T) == IF T = "Y" THEN "y" ELSE "mt"

Written(T) == tables[T].status = "written"

PlaceholderTokens ==
    { <<>>,
      <<".", ".">>,
      <<"n", "/", "a">>,
      <<"N", "/", "A">>,
      <<"N", "e", "a", "n", "d", "e", "r", "t", "h", "a", "l">> }

DecimalDigits == {"0", "1", "2", "3", "4", "5", "6", "7", "8", "9"}

\* the validity predicate as the specification words it
SpecValid(x) ==
    LET s == strip(x)
    IN  /\ s \notin PlaceholderTokens
        /\ \/ Len(s) = 1
           \/ Len(s) >= 2 /\ s[2] \in DecimalDigits

\* the rows with a valid code in the column of table T
Counted(T) == {i \in DOMAIN df : SpecValid(df[i][HaploCol(T)])}

InGroup(T, g) == {i \in Counted(T) : GroupKey(df[i]) = g}

\* number of counted rows of group g in basal bucket b
BasalCount(T, g, b) ==
    Cardinality({i \in InGroup(T, g) : haplo_basal(df[i][HaploCol(T)]) = b})

\* number of counted rows of group g in subclade bucket sc
SubCount(T, g, sc) ==
    Cardinality({i \in InGroup(T, g) : parse_subclade(df[i][HaploCol(T)]) = sc})

BasalCols(T) == {c \in Range(tables[T].haplo_cols) : Len(c) = 1}

SubCols(T) == {c \in Range(tables[T].haplo_cols) : Len(c) = 2}

Rows(T) == tables[T].rows

Leq100(x) == x[1] <= 100 * x[2]

\* every row of the input has a numeric age
NumericAges == \A i \in DOMAIN df : to_numeric(df[i].age) # None

\* no code of the column of table T has surrounding whitespace
TrimmedCodes(T) == \A i \in DOMAIN df : strip(df[i][HaploCol(T)]) = df[i][HaploCol(T)]

\* C1: for every output group the Total cell equals the sum of the group's basal
\* raw counts, which equals the number of valid records mapped to the group;
\* subclade raw counts are never added to it.  Stated for the inputs in which
\* every age is numeric and no code has surrounding whitespace.
C1_TotalIsBasalSum ==
    \A T \in Labels : Written(T) /\ NumericAges /\ TrimmedCodes(T) =>
        \A g \in DOMAIN Rows(T) :
            /\ Rows(T)[g].Total = RowSum(tables[T].pivot_basal_counts[g])
            /\ Rows(T)[g].Total = Cardinality(InGroup(T, g))

\* C2: every subclade percentage of a group equals 100 * (the number of the
\* group's records in that subclade) / (the number of the group's records in
\* the parent basal), and is 0 when the parent count is 0.  Stated for the
\* inputs in which every age is numeric.
C2_SubcladePctOfParent ==
    \A T \in Labels : Written(T) /\ NumericAges =>
        \A g \in DOMAIN Rows(T) : \A sc \in SubCols(T) :
            LET p == BasalCount(T, g, <<sc[1]>>)
                n == SubCount(T, g, sc)
            IN  FracEq(Rows(T)[g].value[sc],
                       IF p = 0 THEN Num(0) ELSE <<100 * n, p>>)

\* C3: every basal percentage of a group equals 100 * (the group's count of
\* that basal) / (the sum of the group's basal counts); the basal percentages
\* of a group with at least one valid record sum to 100, and all are 0 when
\* the group total is 0.
C3_BasalPctOfGroupTotal ==
    \A T \in Labels : Written(T) =>
        \A g \in DOMAIN Rows(T) :
            LET cnt == [b \in BasalCols(T) |-> BasalCount(T, g, b)]
                total == SumInt(cnt, BasalCols(T))
            IN  /\ \A b \in BasalCols(T) :
                       FracEq(Rows(T)[g].value[b],
                              IF total = 0 THEN Num(0) ELSE <<100 * cnt[b], total>>)
                /\ Cardinality(InGroup(T, g)) >= 1 =>
                       FracEq(SumFrac(Rows(T)[g].value, BasalCols(T)), Num(100))

\* C3 witness: a written table with a group of three records, two of them in
\* one basal bucket (66.67%) and one in another.
C3_Witness ==
    \E T \in Labels : Written(T) /\
        \E g \in DOMAIN Rows(T) : \E b1, b2 \in BasalCols(T) :
            /\ FracEq(Rows(T)[g].value[b1], <<200, 3>>)
            /\ FracEq(Rows(T)[g].value[b2], <<100, 3>>)

\* the basal letters that have a subclade column in table T
BasalsWithSub(T) == {<<sc[1]>> : sc \in SubCols(T)}

SubColsOf(T, X) == {sc \in SubCols(T) : startswith(sc, X)}

\* C4 as claimed: the subclade percentages of a basal X in a group sum to 100
\* when the group's count of X is positive and to 0 otherwise, for any mix of
\* valid codes.  Stated for the inputs in which every age is numeric and no
\* code has surrounding whitespace.
C4_SubcladePctSumTo100 ==
    \A T \in Labels : Written(T) /\ NumericAges /\ TrimmedCodes(T) =>
        \A g \in DOMAIN Rows(T) : \A X \in BasalsWithSub(T) :
            FracEq(SumFrac(Rows(T)[g].value, SubColsOf(T, X)),
                   IF BasalCount(T, g, X) > 0 THEN Num(100) ELSE Num(0))

\* the basal buckets in which the records of group g with subclade sc fall
BucketsOf(T, g, sc) ==
    {haplo_basal(df[i][HaploCol(T)]) :
        i \in {j \in InGroup(T, g) : parse_subclade(df[j][HaploCol(T)]) = sc}}

\* C4 amended: the subclade percentages of a basal X in a group sum to 0 when
\* the group's count of X is 0, and otherwise to 100 * S / (the group's count
\* of X), where S adds, over the subclade columns of X, the number of the
\* group's records in that subclade divided by the number of basal buckets
\* those records fall in; so the sum is 100 only if S equals the count of X,
\* and a group with records A and A1 has A1 = 50%.
C4_SubcladePctSum ==
    \A T \in Labels : Written(T) =>
        \A g \in DOMAIN Rows(T) : \A X \in BasalsWithSub(T) :
            LET share == [sc \in SubColsOf(T, X) |->
                             IF SubCount(T, g, sc) = 0 THEN Num(0)
                             ELSE <<SubCount(T, g, sc),
                                    Cardinality(BucketsOf(T, g, sc))>>]
                S == SumFrac(share, SubColsOf(T, X))
                p == BasalCount(T, g, X)
            IN  FracEq(SumFrac(Rows(T)[g].value, SubColsOf(T, X)),
                       IF p = 0 THEN Num(0) ELSE <<100 * S[1], S[2] * p>>)

\* C4 witness: a written table with a group that holds the bare code of a
\* basal beside its subclades, so that the subclade columns of that basal are
\* positive and sum to less than 100.
C4_Witness ==
    \E T \in Labels : Written(T) /\
        \E g \in DOMAIN Rows(T) : \E X \in BasalsWithSub(T) :
            /\ \E i \in InGroup(T, g) :
                   /\ haplo_basal(df[i][HaploCol(T)]) = X
                   /\ parse_subclade(df[i][HaploCol(T)]) = None
            /\ Cardinality(SubColsOf(T, X)) = 2
            /\ FracEq(SumFrac(Rows(T)[g].value, SubColsOf(T, X)), <<200, 3>>)

\* C5: a code is counted if and only if, after trimming, it is none of the
\* placeholder tokens and has length 1 or a decimal digit as second character.
C5_ValidIffShape ==
    classified.done => (classified.valid <=> SpecValid(code))

\* C5 witness: a code with leading whitespace has been classified as valid.
C5_Witness ==
    /\ classified.done
    /\ classified.valid
    /\ Len(code) = 3
    /\ code[1] \in Whitespace
    /\ code[3] \in DecimalDigits

\* the buckets the specification gives a code c
SpecBuckets(c) ==
    [basal |-> <<upper(c[1])>>,
     sub |-> IF Len(c) = 1 THEN None ELSE <<upper(c[1]), upper(c[2])>>]

\* C6: for every valid code the basal bucket is the first character
\* upper-cased, and the subclade bucket is none for a code of length 1 and
\* the first two characters upper-cased otherwise (read on the trimmed code,
\* or on the code as given).
C6_Buckets ==
    classified.done /\ classified.valid =>
        LET got == [basal |-> classified.basal, sub |-> classified.sub]
        IN  got = SpecBuckets(strip(code)) \/ got = SpecBuckets(code)

\* C7: every counted record's subclade bucket starts with its basal bucket,
\* so no subclade count of a group exceeds the count of its parent basal in
\* that group, and no subclade percentage exceeds 100.  Stated for the inputs
\* in which every age is numeric.
C7_SubcladeWithinParent ==
    \A T \in Labels : Written(T) /\ NumericAges =>
        /\ \A i \in tables[T].df_valid :
               LET b == haplo_basal(df[i][HaploCol(T)])
                   sc == parse_subclade(df[i][HaploCol(T)])
               IN  sc # None => startswith(sc, b)
        /\ \A g \in DOMAIN Rows(T) : \A sc \in SubCols(T) :
               /\ SubCount(T, g, sc) <= BasalCount(T, g, <<sc[1]>>)
               /\ Leq100(Rows(T)[g].value[sc])

\* C8: the basal bucket of every code that passes the validity test is a
\* single uppercase alphabetic character.
C8_BasalIsUppercaseLetter ==
    classified.done /\ classified.valid =>
        /\ Len(classified.basal) = 1
        /\ isalpha(classified.basal[1])
        /\ upper(classified.basal[1]) = classified.basal[1]

\* the table without its row i
RemoveAt(d, i) ==
    [k \in 1..(Len(d) - 1) |-> IF k < i THEN d[k] ELSE d[k + 1]]

\* C9: a record whose code is a placeholder or otherwise invalid adds nothing
\* to any basal count, any subclade count or the Total of its group: the
\* counts and the rows of the table are those of the input without it.
C9_InvalidAddsNothing ==
    \A T \in Labels : Written(T) =>
        \A i \in DOMAIN df : ~SpecValid(df[i][HaploCol(T)]) =>
            LET without == make_haplo_table(RemoveAt(df, i), HaploCol(T))
            IN  /\ without.status = "written"
                /\ without.pivot_basal_counts = tables[T].pivot_basal_counts
                /\ without.pivot_sub = tables[T].pivot_sub
                /\ without.rows = Rows(T)

\* C9 witness: a written table whose input holds a record with the code "n/a"
\* in the group of a record with a valid code.
C9_Witness ==
    \E T \in Labels : Written(T) /\
        \E i, j \in DOMAIN df :
            /\ df[i][HaploCol(T)] = <<"n", "/", "a">>
            /\ j \in Counted(T)
            /\ GroupKey(df[j]) = GroupKey(df[i])

\* C10: a record whose age is missing or not numeric is in no group: it is
\* not among the rows make_haplo_table aggregates and its group key forms no
\* output row.
C10_NoAgeNoGroup ==
    \A T \in Labels : Written(T) =>
        \A i \in DOMAIN df : df[i].age_numeric = None =>
            /\ i \notin tables[T].df_valid
            /\ GroupKey(df[i]) \notin DOMAIN Rows(T)

\* C11: if no record has a numeric age, the run ends at the age check: it
\* never reaches the table builders, and neither table is built.
C11_AllAgesUndefinedIsFatal ==
    (pc # "read" /\ \A i \in DOMAIN df : to_numeric(df[i].age) = None) =>
        /\ pc = "exit"
        /\ tables = NoTables

\* C11 witness: the run has ended on two records with valid codes and no
\* numeric age.
C11_Witness ==
    /\ pc = "exit"
    /\ tables = NoTables
    /\ Len(df) = 2
    /\ \A i \in DOMAIN df :
           to_numeric(df[i].age) = None /\ SpecValid(df[i].y) /\ SpecValid(df[i].mt)

\* the lower bounds a bin of the enumerated ages can have
BinLowers == {BinWidth * k : k \in -100..100}

\* C12: for every record with a numeric age a, the bin lower bound is the
\* multiple of 1000 with lower <= a < lower + 1000 (age 1000 is in bin 1000,
\* age 999 in bin 0), the bin label is "{lower}-{lower+1000} BP", and the
\* population name is the region, one space, and the bin label.
C12_BinAndName ==
    pc = "y" =>
        \A i \in DOMAIN df :
            LET r == df[i]
                a == r.age_numeric
            IN  /\ a # None =>
                    \E lower \in BinLowers :
                        /\ lower * a[2] <= a[1]
                        /\ a[1] < (lower + 1000) * a[2]
                        /\ r.binned_age =
                               ToString(lower) \o "-" \o ToString(lower + 1000) \o " BP"
                        /\ r.name = r.country \o " " \o r.binned_age
                /\ r.age = <<"1", "0", "0", "0">> => r.binned_age = "1000-2000 BP"
                /\ r.age = <<"9", "9", "9">> => r.binned_age = "0-1000 BP"
                /\ r.age = <<"9", "9", ".", "9">> => r.binned_age = "0-1000 BP"

\* C12 witness: a record of age 1000 in region "x" has been named.
C12_Witness ==
    /\ pc = "y"
    /\ df[1].age = <<"1", "0", "0", "0">>
    /\ df[1].name = "x 1000-2000 BP"

\* the records of table T that have a valid code and a numeric age
ValidRecords(T) == {i \in tables[T].df_valid : df[i].age_numeric # None}

\* the number of the 1000-year bin a numeric age falls in
BinOf(a) == a[1] \div (a[2] * 1000)

\* C13: two valid records are aggregated into the same output row if and only
\* if their region strings are equal as given and their ages fall in the same
\* bin; the output rows of distinct groups are distinct, and the group of a
\* record is the same in both tables, whatever its haplogroup codes.
C13_SameRowIffSameRegionAndBin ==
    \A T \in Labels : Written(T) =>
        /\ \A i, j \in ValidRecords(T) :
               (tables[T].group_of[i] = tables[T].group_of[j])
                   <=> /\ df[i].country = df[j].country
                       /\ BinOf(df[i].age_numeric) = BinOf(df[j].age_numeric)
        /\ \A i \in ValidRecords(T) : tables[T].group_of[i] \in DOMAIN Rows(T)
        /\ \A g, h \in DOMAIN Rows(T) :
               g # h => <<Rows(T)[g].name, Rows(T)[g].Country>>
                            # <<Rows(T)[h].name, Rows(T)[h].Country>>
        /\ \A U \in Labels : Written(U) =>
               \A i \in ValidRecords(T) \cap ValidRecords(U) :
                   tables[T].group_of[i] = tables[U].group_of[i]

\* C13 witness: a written table with two records of one bin whose regions
\* differ in case only, and a third record that shares the row of the first
\* with another code.
C13_Witness ==
    \E T \in Labels : Written(T) /\
        \E i, j, k \in ValidRecords(T) :
            /\ df[i].country = "X"
            /\ df[j].country = "x"
            /\ df[i].age = df[j].age
            /\ tables[T].group_of[i] # tables[T].group_of[j]
            /\ df[k][HaploCol(T)] # df[i][HaploCol(T)]
            /\ tables[T].group_of[k] = tables[T].group_of[i]

\* the mean raw age of the counted records of group g, NaN when none of them
\* has a numeric age
MeanAge(T, g) ==
    Mean([i \in InGroup(T, g) |-> df[i].age_numeric], InGroup(T, g))

\* the label of calendar year y
YearLabel(y) ==
    IF y > 0 THEN ToString(y) \o " CE"
    ELSE IF y < 0 THEN ToString(0 - y) \o " BCE"
    ELSE "0 CE"

\* y is an integer nearest to 1950 - m
NearestYear(y, m) ==
    LET diff == y * m[2] - (1950 * m[2] - m[1])
    IN  2 * diff <= m[2] /\ 2 * (0 - diff) <= m[2]

\* C14: the Age cell of every output row is the label of y = round(1950 - m),
\* m the mean raw age of the row's group: "{y} CE" for y > 0, "{|y|} BCE"
\* for y < 0, "0 CE" for y = 0.
C14_AgeLabelOfMean ==
    \A T \in Labels : Written(T) =>
        \A g \in DOMAIN Rows(T) :
            LET m == MeanAge(T, g)
            IN  m # None =>
                    \E y \in {Floor(<<1950 * m[2] - m[1], m[2]>>) + k : k \in {0, 1}} :
                        /\ NearestYear(y, m)
                        /\ Rows(T)[g].Age = YearLabel(y)

\* C15 as claimed: a group whose mean raw age is 0 has the Age label "0 CE".
\* Stated for the inputs in which every age is numeric.
C15_MeanZeroIsZeroCE ==
    \A T \in Labels : Written(T) /\ NumericAges =>
        \A g \in DOMAIN Rows(T) :
            LET m == MeanAge(T, g)
            IN  m # None /\ m[1] = 0 => Rows(T)[g].Age = "0 CE"

\* some group of table T has no record with a numeric age
SomeMeanAgeUndefined(T) == \E h \in DOMAIN Rows(T) : MeanAge(T, h) = None

\* C15 amended: a group whose mean raw age is 1950 has the Age label "0 CE",
\* and a group whose mean raw age is 0 has "1950 CE"; in a table with a group
\* that has no numeric age at all, both have "Unknown".
C15_MeanReferenceYearIsZeroCE ==
    \A T \in Labels : Written(T) =>
        \A g \in DOMAIN Rows(T) :
            LET m == MeanAge(T, g)
                age == Rows(T)[g].Age
            IN  m # None =>
                    IF SomeMeanAgeUndefined(T) THEN age = "Unknown"
                    ELSE /\ FracEq(m, Num(1950)) => age = "0 CE"
                         /\ FracEq(m, Num(0)) => age = "1950 CE"

\* C15 witness: a written table with a group of mean age 1950 labelled
\* "0 CE" beside a group of mean age 0 labelled "1950 CE".
C15_Witness ==
    \E T \in Labels : Written(T) /\
        \E g, h \in DOMAIN Rows(T) :
            /\ MeanAge(T, g) # None /\ FracEq(MeanAge(T, g), Num(1950))
            /\ Rows(T)[g].Age = "0 CE"
            /\ MeanAge(T, h) # None /\ FracEq(MeanAge(T, h), Num(0))
            /\ Rows(T)[h].Age = "1950 CE"

\* column c comes before column d in the order of code points
ColumnBefore(c, d) ==
    \/ ord(c[1]) < ord(d[1])
    \/ c[1] = d[1] /\ Len(c) = 2 /\ Len(d) = 2 /\ ord(c[2]) < ord(d[2])

\* C16: the columns are Ancient pop name, Country, Age, Lat, Long, then the
\* haplogroup columns, then Total; the haplogroup columns start with a basal,
\* the basals ascend, and every subclade column stands in the run that follows
\* its own basal, the subclades of a run ascending.
C16_ColumnOrder ==
    \A T \in Labels : Written(T) =>
        LET cols == tables[T].columns
            h == tables[T].haplo_cols
            n == Len(h)
        IN  /\ Len(cols) = n + 6
            /\ SubSeq(cols, 1, 5) = <<"Ancient pop name", "Country", "Age", "Lat", "Long">>
            /\ cols[n + 6] = "Total"
            /\ \A k \in 1..n : cols[5 + k] = Text(h[k]) /\ Len(h[k]) \in {1, 2}
            /\ n >= 1 => Len(h[1]) = 1
            /\ \A k \in 1..(n - 1) :
                   IF Len(h[k + 1]) = 2
                   THEN /\ h[k + 1][1] = h[k][1]
                        /\ Len(h[k]) = 2 => ColumnBefore(h[k], h[k + 1])
                   ELSE ord(h[k][1]) < ord(h[k + 1][1])

\* C16 witness: a written table with the haplogroup columns A, A1, A2, B.
C16_Witness ==
    \E T \in Labels : Written(T) /\
        tables[T].columns = <<"Ancient pop name", "Country", "Age", "Lat", "Long",
                              "A", "A1", "A2", "B", "Total">>

\* the basal letters and the subclade codes counted in some group of table T
ObservedBasals(T) == {haplo_basal(df[i][HaploCol(T)]) : i \in Counted(T)}

ObservedSubclades(T) ==
    {parse_subclade(df[i][HaploCol(T)]) : i \in Counted(T)} \ {None}

\* C17: the haplogroup columns are exactly the basal letters and the subclade
\* codes counted among the valid records of the whole input, each once, and
\* every row has a cell for each of them.  Stated for the inputs in which
\* every age is numeric.
C17_ColumnsAreUnionOfObserved ==
    \A T \in Labels : Written(T) /\ NumericAges =>
        LET h == tables[T].haplo_cols
        IN  /\ Range(h) = ObservedBasals(T) \cup ObservedSubclades(T)
            /\ Cardinality(Range(h)) = Len(h)
            /\ \A g \in DOMAIN Rows(T) : DOMAIN Rows(T)[g].cell = Range(h)

\* group g of table T has counted records, and none of them carries a subclade
NoSubcladeRecords(T, g) ==
    /\ InGroup(T, g) # {}
    /\ \A i \in InGroup(T, g) : parse_subclade(df[i][HaploCol(T)]) = None

\* every group key of a counted record is a row of table T
EveryGroupHasRow(T) ==
    \A i \in Counted(T) : GroupKey(df[i]) \in DOMAIN Rows(T)

\* C18 as claimed: a group with basal data and no subclade records is a row
\* of the output, and its subclade cells are the empty string.
C18_NoSubcladeCellsBlank ==
    \A T \in Labels : Written(T) =>
        /\ EveryGroupHasRow(T)
        /\ \A g \in DOMAIN Rows(T) : NoSubcladeRecords(T, g) =>
               \A sc \in SubCols(T) : Rows(T)[g].cell[sc] = ""

\* C18 amended: a group with basal data and no subclade records is a row of
\* the output, and its subclade cells are "0.00%".
C18_NoSubcladeCellsZero ==
    \A T \in Labels : Written(T) =>
        /\ EveryGroupHasRow(T)
        /\ \A g \in DOMAIN Rows(T) : NoSubcladeRecords(T, g) =>
               \A sc \in SubCols(T) : Rows(T)[g].cell[sc] = "0.00%"

\* C18 witness: a written table with a subclade column, and a group that has
\* a record of the parent basal and no subclade record.
C18_Witness ==
    \E T \in Labels : Written(T) /\
        \E g \in DOMAIN Rows(T) : \E sc \in SubCols(T) :
            /\ NoSubcladeRecords(T, g)
            /\ BasalCount(T, g, <<sc[1]>>) > 0
            /\ Rows(T)[g].cell[sc] = "0.00%"

\* the other haplogroup type
OtherType(T) == IF T = "Y" THEN "MT" ELSE "Y"

\* C19: a haplogroup type without any valid record in the whole input gets
\* no table (its column is skipped, or make_haplo_table raises and the
\* exception is caught), the run goes on past it, and the other type, when it
\* has valid records, is taken through make_haplo_table up to the writing of
\* its table.
C19_ZeroValidTypeSkipped ==
    \A T \in Labels :
        (tables[T].status # "none" /\ Counted(T) = {}) =>
            /\ tables[T].status \in {"skipped", "error"}
            /\ T = "Y" => (pc \in {"mt", "done"} \/ tables.MT.status = "write_failed")
            /\ T = "MT" => pc = "done"
            /\ (pc \in {"done", "exit"} /\ Counted(OtherType(T)) # {}) =>
                   tables[OtherType(T)].status \in {"written", "write_failed"}
            /\ (pc = "done" /\ Counted(OtherType(T)) # {}) => Written(OtherType(T))

\* C19 witness: the run is over, the Y column held placeholders and codes of
\* the wrong shape only, and the mtDNA table is written.
C19_Witness ==
    /\ pc = "done"
    /\ tables.Y.status = "error"
    /\ Counted("Y") = {}
    /\ \E i \in DOMAIN df : df[i].y = <<"A", "B">>
    /\ Written("MT")

\* C20: a failure to write the Y-chromosome file does not keep the mtDNA
\* table from being built and written: when the run has ended (pc is "done"
\* or "exit", after which no step is taken) with the Y file not written and
\* valid mtDNA records in the input, the mtDNA table is written.
C20_WriteFailureLeavesOtherType ==
    (/\ pc \in {"done", "exit"}
     /\ tables.Y.status = "write_failed"
     /\ Counted("MT") # {}) => Written("MT")

\* the region, age, latitude and longitude columns
RequiredColumns == {col_country, col_age, col_lat, col_long}

\* C21: when the header lacks the region, age, latitude or longitude column,
\* the run ends before any aggregation with an error that names exactly the
\* missing columns, and no table is built; when it lacks the haplogroup column
\* of one type only, that type is skipped with the column named, and the
\* other type is taken through its own processing.
C21_ColumnsValidatedFirst ==
    /\ (pc # "read" /\ RequiredColumns \ header # {}) =>
           /\ pc = "exit"
           /\ tables = NoTables
           /\ stderr.error = "missing columns"
           /\ Range(stderr.columns) = RequiredColumns \ header
    /\ \A T \in Labels :
           (/\ RequiredColumns \subseteq header
            /\ ColumnName(HaploCol(T)) \notin header
            /\ ColumnName(HaploCol(OtherType(T))) \in header) =>
               /\ tables[T].status # "none" =>
                      tables[T] = [status |-> "skipped",
                                   not_found |-> ColumnName(HaploCol(T))]
               /\ (pc \in {"done", "exit"} /\ stderr.error # "no valid age") =>
                      /\ tables[OtherType(T)].status # "none"
                      /\ Counted(OtherType(T)) # {} =>
                             tables[OtherType(T)].status \in {"written", "write_failed"}

\* C21 witness: the run has ended on a file without its age and longitude
\* columns, and the error names the two.
C21_Witness ==
    /\ pc = "exit"
    /\ Len(df) = 2
    /\ header = FullHeader \ {col_age, col_long}
    /\ stderr = [error |-> "missing columns", columns |-> <<col_age, col_long>>]

\* the mean of the numeric cells of a column over the records S, those
\* without a number left out; NaN when none has one
MeanOfCells(S, column) ==
    LET have == {i \in S : to_numeric(df[i][column]) # None}
        total == SumFrac([i \in have |-> to_numeric(df[i][column])], have)
    IN  IF have = {} THEN None
        ELSE <<total[1], total[2] * Cardinality(have)>>

\* two means are the same number, or both NaN
SameMean(a, b) ==
    IF a = None \/ b = None THEN a = b ELSE FracEq(a, b)

\* C22: the Lat, Long and mean age of every group are the means over the
\* counted records of the group, the records with an invalid code left out,
\* and a record without a numeric cell in one column left out of the mean of
\* that column only.
C22_MeansOverCountedRecords ==
    \A T \in Labels : Written(T) =>
        \A g \in DOMAIN Rows(T) :
            /\ SameMean(Rows(T)[g].Lat, MeanOfCells(InGroup(T, g), "lat"))
            /\ SameMean(Rows(T)[g].Long, MeanOfCells(InGroup(T, g), "long"))
            /\ SameMean(tables[T].coord_df[g].age_numeric,
                        MeanOfCells(InGroup(T, g), "age"))

\* C22 witness: a written table with a group of three counted records, of
\* latitude 4, 8 and none, whose Lat is 6.
C22_Witness ==
    \E T \in Labels : Written(T) /\
        \E g \in DOMAIN Rows(T) :
            /\ Cardinality(InGroup(T, g)) = 3
            /\ \E i \in InGroup(T, g) : df[i].lat = <<>>
            /\ Rows(T)[g].Lat # None
            /\ FracEq(Rows(T)[g].Lat, Num(6))

\* C23: the two builds leave the record table as it was, the mtDNA table is
\* the one make_haplo_table gives on the record table as it was before the Y
\* build, and every record with a valid mtDNA code is counted in a written
\* mtDNA table, whatever its Y code.
C23_RunsIndependent ==
    /\ [][/\ pc \in {"y", "mt"} => df' = df
          /\ pc = "mt" /\ Written("MT")' =>
                 tables'["MT"] = make_haplo_table(df, "mt")]_vars
    /\ [](Written("MT") => Counted("MT") = tables["MT"].df_valid)

\* C23 witness: both tables are written, and a record left out of the Y
\* table for its Y code is counted in the mtDNA table.
C23_Witness ==
    /\ Written("Y")
    /\ Written("MT")
    /\ \E i \in DOMAIN df :
           /\ ~SpecValid(df[i].y)
           /\ i \notin tables["Y"].df_valid
           /\ i \in tables["MT"].df_valid

\* the record table with rows k and k + 1 exchanged
Swap(d, k) ==
    [i \in DOMAIN d |-> IF i = k THEN d[k + 1] ELSE IF i = k + 1 THEN d[k] ELSE d[i]]

\* the cells of the output rows that the claim compares
Cells(rows) ==
    [g \in DOMAIN rows |->
        [Age |-> rows[g].Age, cell |-> rows[g].cell, Total |-> rows[g].Total]]

\* C24: a written table has the same columns, the same set of rows and the
\* same percentage, Total and Age cells as the table made from the records
\* with two neighbouring input rows exchanged (every order of the input is
\* reached by such exchanges).
C24_InputOrderIrrelevant ==
    \A T \in Labels : Written(T) =>
        \A k \in 1 .. (Len(df) - 1) :
            LET other == make_haplo_table(Swap(df, k), HaploCol(T))
            IN  /\ other.status = "written"
                /\ other.columns = tables[T].columns
                /\ Cells(other.rows) = Cells(Rows(T))

\* C24 witness: a written table with a group of two records of different
\* ages, read one after the other, and a year in its Age cell.
C24_Witness ==
    \E T \in Labels : Written(T) /\
        \E k \in 1 .. (Len(df) - 1) :
            /\ {k, k + 1} \subseteq Counted(T)
            /\ GroupKey(df[k]) = GroupKey(df[k + 1])
            /\ df[k].age # df[k + 1].age
            /\ Rows(T)[GroupKey(df[k])].Age # "Unknown"

\* C25: every haplogroup column of a written table is a basal column or a
\* subclade column for the rendering stage, and every column with a positive
\* percentage in a row is in the chart data of that row.
C25_EmittedColumnsCharted ==
    \A T \in Labels : Written(T) =>
        \A g \in DOMAIN Rows(T) :
            \A c \in Range(tables[T].haplo_cols) :
                /\ is_basal_col(c) \/ is_subclade_col(c)
                /\ val_pct(Rows(T)[g].value[c]) > 0 =>
                       c \in build_two_ring_data(Rows(T)[g], tables[T].haplo_cols).labels

\* the sample names in the second column of the samples file
SampleNames ==
    {filter.samples_file[k][2] :
        k \in {j \in DOMAIN filter.samples_file : Len(filter.samples_file[j]) >= 2}}

\* a sequence of row numbers is in the order of the file, without repeats
InOriginalOrder(q) == \A a, b \in DOMAIN q : a < b => q[a] < q[b]

\* every line of the samples file has its two fields
TwoFieldLines ==
    \A k \in DOMAIN filter.samples_file : Len(filter.samples_file[k]) >= 2

MatchesSample(row) ==
    \/ row.id \in SampleNames
    \/ /\ row.id = None
       /\ \E k \in DOMAIN filter.samples_file : Len(filter.samples_file[k]) < 2

C27_TotalIsBasalPlusSubclades ==
    \A T \in Labels : Written(T) /\ NumericAges =>
        \A g \in DOMAIN Rows(T) :
            Rows(T)[g].Total =
                Cardinality(InGroup(T, g))
                + Cardinality({i \in InGroup(T, g) :
                                  parse_subclade(df[i][HaploCol(T)]) # None})

\* the group keys to which a counted record of table T maps
CountedGroups(T) == {GroupKey(df[i]) : i \in Counted(T)}

\* C28: the rows of a written table are the group keys to which at least one
\* record with a valid code maps, a group whose records all have invalid
\* codes has no row, and the basal counts of every row sum to 1 or more, so
\* that no basal percentage is taken of a zero total.
C28_RowsAreGroupsWithValidRecord ==
    \A T \in Labels : Written(T) =>
        /\ DOMAIN Rows(T) = CountedGroups(T)
        /\ DOMAIN tables[T].pivot_basal_counts = CountedGroups(T)
        /\ \A i \in DOMAIN df :
               GroupKey(df[i]) \notin CountedGroups(T) =>
                   GroupKey(df[i]) \notin DOMAIN Rows(T)
        /\ \A g \in DOMAIN Rows(T) :
               /\ RowSum(tables[T].pivot_basal_counts[g]) >= 1
               /\ RowSum(tables[T].pivot_basal_counts[g]) = Cardinality(InGroup(T, g))

\* C28 witness: a written table with a row, and a record with an invalid
\* code whose group has no record with a valid code and no row.
C28_Witness ==
    \E T \in Labels : Written(T) /\
        /\ DOMAIN Rows(T) # {}
        /\ \E i \in DOMAIN df :
               /\ i \notin Counted(T)
               /\ GroupKey(df[i]) \notin CountedGroups(T)
               /\ GroupKey(df[i]) \notin DOMAIN Rows(T)

\* the records of the input that map to group g, in their order
RecordsOf(g) == SelectSeq(df, LAMBDA r : GroupKey(r) = g)

\* C29: in a written table (some record of the input has a numeric age),
\* no Age cell is "Unknown", and the Age cell of every row is the one of the
\* table made from the records of the row's own group alone, so that the
\* records of another group do not change it.
C29_AgeOfOwnGroupOnly ==
    \A T \in Labels :
        Written(T) /\ (\E i \in DOMAIN df : df[i].age_numeric # None) =>
            \A g \in DOMAIN Rows(T) :
                LET alone == make_haplo_table(RecordsOf(g), HaploCol(T))
                IN  /\ Rows(T)[g].Age # "Unknown"
                    /\ alone.status = "written"
                    /\ Rows(T)[g].Age = alone.rows[g].Age

\* C30: the Age cell written for a calendar year is the label of
\* format_calendar_year, and parse_historical_age of that cell is the year
\* again: negative for a BCE label, positive for a CE label, 0 for "0 CE".
C30_AgeRoundTrip ==
    /\ render.pc \in {"parse", "done"} =>
           Text(render.age_str) = format_calendar_year(render.year)
    /\ render.pc = "done" => render.parsed = render.year

\* C30 witness: the label "50 BCE" was parsed to -50.
C30_Witness ==
    /\ render.pc = "done"
    /\ render.age_str = <<"5", "0", " ", "B", "C", "E">>
    /\ render.parsed = -50

====
